---------------------------- MODULE Spec2Model ----------------------------
(***************************************************************************)
(* A model of the analysis-and-composition engine MusicMixer               *)
(* (src/music_mixer_logic.py).                                             *)
(*                                                                         *)
(* Python strings are TLA+ strings, read character by character with       *)
(* SubSeq.  A Python value that may be None is a sequence of length at     *)
(* most one: None is <<>>, the value v is <<v>>.  A dict is a function     *)
(* whose DOMAIN is the set of its keys.                                    *)
(***************************************************************************)
EXTENDS Integers, Sequences, FiniteSets, TLC

VARIABLES
    \* one call of the static method get_compatible_keys
    key,            \* its argument (None or a string)
    compatible,     \* its return value, None while no call has returned
    \* one call of the static method extract_bpm_from_filename
    filename,       \* its argument
    bpm_from_name,  \* Some(its return value), None while no call has returned
    \* what parsing the names of each path yields (see Parsed): worked out
    \* once, when the model starts, and never changed
    parsed,
    \* one MusicMixer instance (self)
    samples_dir,        \* name of the directory the instance was built on
    target_bpm,
    current_key,
    experimental_mode,
    bpm_cache,          \* dict: path -> tempo
    key_cache,          \* dict: path -> key or None
    temp_dir,           \* names of the files in self.temp_dir
    \* what get_bpm returned the first time it was called on each path, with
    \* the branch that returned it
    bpm_seen,
    \* the latest call of a public method that has returned or raised
    outcome,
    \* the list classify_samples is called on when it is called on its own
    samples,
    \* the call in progress: generate_complete_mix, with the frames of
    \* create_multilayer_composition and generate_mix_audio under it, or
    \* generate_mix_audio called on its own
    pc,                     \* "idle" when no call is in progress
    caller,                 \* "generate_complete_mix" | "generate_mix_audio" | ""
    num_layers,
    categories,             \* dict: category -> list of (sample, bpm, key)
    selected_categories,
    idx,                    \* position of the for loop over selected_categories
    sample_info,            \* the (sample_path, original_bpm, sample_key) chosen
    audio,                  \* length in ms of the AudioSegment being prepared
    looped,                 \* length in ms of the AudioSegment a while loop grows
    dropped,                \* positions of selected_categories whose pass raised
    layers,
    composition_info,
    duration_ms,
    mix_audio,              \* length in ms of the mix being built
    layer_idx               \* position of the for loop over layers

keyvars == <<key, compatible>>
ebvars == <<filename, bpm_from_name>>
selfvars == <<samples_dir, target_bpm, current_key, experimental_mode>>
cachevars == <<bpm_cache, key_cache, bpm_seen>>
callvars == <<pc, caller, num_layers, categories, selected_categories, idx, dropped, sample_info,
              audio, looped, layers, composition_info, duration_ms, mix_audio, layer_idx>>
mixervars == <<selfvars, cachevars, temp_dir, outcome, samples, callvars>>
vars == <<keyvars, ebvars, parsed, mixervars>>

None == <<>>
Some(v) == <<v>>

-----------------------------------------------------------------------------
(* Strings *)

UpperLetters == "ABCDEFGHIJKLMNOPQRSTUVWXYZ"
LowerLetters == "abcdefghijklmnopqrstuvwxyz"
DigitChars == "0123456789"

Ch(s, i) == SubSeq(s, i, i)

\* 0 when c does not occur in alphabet, else its first position
IndexIn(alphabet, c) ==
    IF \E i \in 1..Len(alphabet) : Ch(alphabet, i) = c
    THEN CHOOSE i \in 1..Len(alphabet) :
            /\ Ch(alphabet, i) = c
            /\ \A j \in 1..(i - 1) : Ch(alphabet, j) # c
    ELSE 0

IsDigit(c) == IndexIn(DigitChars, c) > 0
DigitVal(c) == IndexIn(DigitChars, c) - 1

\* the character at position i of alphabet, c itself when i is 0
ChOr(alphabet, i, c) == IF i > 0 THEN Ch(alphabet, i) ELSE c

LowerCh(c) == ChOr(LowerLetters, IndexIn(UpperLetters, c), c)
UpperCh(c) == ChOr(UpperLetters, IndexIn(LowerLetters, c), c)

\* a if it is not None, else b
OrElse(a, b) == IF a # None THEN a ELSE b

RECURSIVE lower(_)
lower(s) == IF s = "" THEN "" ELSE LowerCh(Ch(s, 1)) \o lower(SubSeq(s, 2, Len(s)))

RECURSIVE upper(_)
upper(s) == IF s = "" THEN "" ELSE UpperCh(Ch(s, 1)) \o upper(SubSeq(s, 2, Len(s)))

\* \w of the regular expressions
IsWordCh(c) ==
    \/ IsDigit(c)
    \/ IndexIn(UpperLetters, c) > 0
    \/ IndexIn(LowerLetters, c) > 0
    \/ c = "_"

\* [\s_-] of the regular expressions
IsDelim(c) == c \in {" ", "_", "-"}

\* int(s) for a string of decimal digits
RECURSIVE int(_)
int(s) ==
    IF s = "" THEN 0
    ELSE 10 * int(SubSeq(s, 1, Len(s) - 1)) + DigitVal(Ch(s, Len(s)))

\* f"{n}" for a natural number n
RECURSIVE str(_)
str(n) == IF n < 10 THEN Ch(DigitChars, n + 1) ELSE str(n \div 10) \o Ch(DigitChars, (n % 10) + 1)

\* the literal lit, written in lower case and compared ignoring case, stands
\* in s at position p
LitAt(s, p, lit) ==
    /\ p >= 1
    /\ p + Len(lit) - 1 <= Len(s)
    /\ lower(SubSeq(s, p, p + Len(lit) - 1)) = lit

\* the n characters of s from position p are all digits
DigitsAt(s, p, n) ==
    /\ p >= 1
    /\ p + n - 1 <= Len(s)
    /\ \A i \in p..(p + n - 1) : IsDigit(Ch(s, i))

\* word in s (Python's substring test)
In(word, s) == \E p \in 1..(Len(s) - Len(word) + 1) : SubSeq(s, p, p + Len(word) - 1) = word

-----------------------------------------------------------------------------
(* Camelot wheel *)

CAMELOT_WHEEL ==
    "1A" :> "B" @@ "2A" :> "F" @@ "3A" :> "C" @@ "4A" :> "G" @@ "5A" :> "D" @@ "6A" :> "A" @@
    "7A" :> "E" @@ "8A" :> "B" @@ "9A" :> "F#" @@ "10A" :> "C#" @@ "11A" :> "G#" @@ "12A" :> "D#" @@
    "1B" :> "G#" @@ "2B" :> "D#" @@ "3B" :> "A#" @@ "4B" :> "F" @@ "5B" :> "C" @@ "6B" :> "G" @@
    "7B" :> "D" @@ "8B" :> "A" @@ "9B" :> "E" @@ "10B" :> "B" @@ "11B" :> "F#" @@ "12B" :> "C#"

\* key in CAMELOT_WHEEL, for a key that may be None
InWheel(k) == k # None /\ k[1] \in DOMAIN CAMELOT_WHEEL

\* a variant that tests the form of the key (a number and A or B) where the
\* code tests that it is a key of CAMELOT_WHEEL
get_compatible_keys_by_form(k) ==
    IF k = None \/ k[1] = "" THEN <<k>>
    ELSE IF Len(k[1]) < 2 \/ Ch(k[1], Len(k[1])) \notin {"A", "B"} THEN <<k>>
    ELSE LET num == int(SubSeq(k[1], 1, Len(k[1]) - 1))
             letter == Ch(k[1], Len(k[1]))
             next_num == IF num < 12 THEN num + 1 ELSE 1
             prev_num == IF num > 1 THEN num - 1 ELSE 12
         IN  << k,
                Some(str(num) \o (IF letter = "A" THEN "B" ELSE "A")),
                Some(str(next_num) \o letter),
                Some(str(prev_num) \o letter) >>

\* a variant that steps to the next number without wrapping 12 to 1
get_compatible_keys_nowrap(k) ==
    IF ~InWheel(k) THEN <<k>>
    ELSE LET num == int(SubSeq(k[1], 1, Len(k[1]) - 1))
             letter == Ch(k[1], Len(k[1]))
         IN  << k,
                Some(str(num) \o (IF letter = "A" THEN "B" ELSE "A")),
                Some(str(num + 1) \o letter),
                Some(str(IF num > 1 THEN num - 1 ELSE 12) \o letter) >>

get_compatible_keys(k) ==
    IF ~InWheel(k) THEN <<k>>
    ELSE LET num == int(SubSeq(k[1], 1, Len(k[1]) - 1))
             letter == Ch(k[1], Len(k[1]))
             next_num == IF num < 12 THEN num + 1 ELSE 1
             prev_num == IF num > 1 THEN num - 1 ELSE 12
         IN  << k,
                Some(str(num) \o (IF letter = "A" THEN "B" ELSE "A")),
                Some(str(next_num) \o letter),
                Some(str(prev_num) \o letter) >>

-----------------------------------------------------------------------------
(* extract_bpm_from_filename *)

\* number of consecutive [\s_-] characters of s from position q on
RECURSIVE DelimRun(_, _)
DelimRun(s, q) == IF q <= Len(s) /\ IsDelim(Ch(s, q)) THEN 1 + DelimRun(s, q + 1) ELSE 0

\* The six patterns, each as its match at start position p with a group
\* (\d{2,3}) of n digits: the position of the group, 0 when there is no
\* such match.
BpmGroupAt(i, s, p, n) ==
    CASE i = 1 ->   \* (\d{2,3})bpm
            IF DigitsAt(s, p, n) /\ LitAt(s, p + n, "bpm") THEN p ELSE 0
      [] i = 2 ->   \* bpm[\s_-]*(\d{2,3})
            IF LitAt(s, p, "bpm") /\ DigitsAt(s, p + 3 + DelimRun(s, p + 3), n)
            THEN p + 3 + DelimRun(s, p + 3) ELSE 0
      [] i = 3 ->   \* [\s_-](\d{2,3})[\s_-]bpm
            IF /\ IsDelim(Ch(s, p))
               /\ DigitsAt(s, p + 1, n)
               /\ p + n + 1 <= Len(s)
               /\ IsDelim(Ch(s, p + n + 1))
               /\ LitAt(s, p + n + 2, "bpm")
            THEN p + 1 ELSE 0
      [] i = 4 ->   \* ^(\d{2,3})[\s_-]
            IF /\ p = 1
               /\ DigitsAt(s, p, n)
               /\ p + n <= Len(s)
               /\ IsDelim(Ch(s, p + n))
            THEN p ELSE 0
      [] i = 5 ->   \* [\s_-](\d{2,3})$
            IF IsDelim(Ch(s, p)) /\ DigitsAt(s, p + 1, n) /\ p + n = Len(s)
            THEN p + 1 ELSE 0
      [] i = 6 ->   \* \((\d{2,3})\)
            IF /\ Ch(s, p) = "("
               /\ DigitsAt(s, p + 1, n)
               /\ p + n + 1 <= Len(s)
               /\ Ch(s, p + n + 1) = ")"
            THEN p + 1 ELSE 0

\* group(1) of a match whose group of n characters stands at position g
Group(s, g, n) == IF g > 0 THEN Some(SubSeq(s, g, g + n - 1)) ELSE None

\* the match at start position p: the greedy \d{2,3} takes three digits when
\* the rest of the pattern then matches, else two
BpmMatchAt(i, s, p) ==
    OrElse(Group(s, BpmGroupAt(i, s, p, 3), 3), Group(s, BpmGroupAt(i, s, p, 2), 2))

\* re.search(patterns[i], s, re.IGNORECASE) from start position p on:
\* group(1) of the leftmost match
RECURSIVE bpm_search_from(_, _, _)
bpm_search_from(i, s, p) ==
    IF p > Len(s) THEN None
    ELSE OrElse(BpmMatchAt(i, s, p), bpm_search_from(i, s, p + 1))

bpm_search(i, s) == bpm_search_from(i, s, 1)

NumPatterns == 6
BpmMin == 80
BpmMax == 180

\* a range test that lets every number through
in_range_any(bpm) == Some(bpm)

\* if 80 <= bpm <= 180: return bpm
in_range(bpm) == IF BpmMin <= bpm /\ bpm <= BpmMax THEN Some(bpm) ELSE None

\* the body of the for loop: what pattern i returns, None when the loop goes on
bpm_of_match(match) == IF match = None THEN None ELSE in_range(int(match[1]))
bpm_pattern(i, s) == bpm_of_match(bpm_search(i, s))

RECURSIVE bpm_patterns_from(_, _)
bpm_patterns_from(i, s) ==
    IF i > NumPatterns THEN None
    ELSE OrElse(bpm_pattern(i, s), bpm_patterns_from(i + 1, s))

extract_bpm_from_filename(s) == bpm_patterns_from(1, s)

-----------------------------------------------------------------------------
(* extract_key_from_filename *)

IsKeyLetter(c) == c \in {"A", "B", "a", "b"}

\* The three Camelot patterns, each as its match at start position p with a
\* group (\d{1,2}[AB]) of n digits and a letter: the position of the group,
\* 0 when there is no such match.
KeyGroupAt(i, s, p, n) ==
    CASE i = 1 ->   \* \b(\d{1,2}[AB])\b
            IF /\ DigitsAt(s, p, n)
               /\ p + n <= Len(s)
               /\ IsKeyLetter(Ch(s, p + n))
               /\ (p = 1 \/ ~IsWordCh(Ch(s, p - 1)))
               /\ (p + n = Len(s) \/ ~IsWordCh(Ch(s, p + n + 1)))
            THEN p ELSE 0
      [] i = 2 ->   \* key[\s_-]*(\d{1,2}[AB])
            LET g == p + 3 + DelimRun(s, p + 3)
            IN  IF /\ LitAt(s, p, "key")
                   /\ DigitsAt(s, g, n)
                   /\ g + n <= Len(s)
                   /\ IsKeyLetter(Ch(s, g + n))
                THEN g ELSE 0
      [] i = 3 ->   \* (\d{1,2}[AB])[\s_-]*key
            IF /\ DigitsAt(s, p, n)
               /\ p + n <= Len(s)
               /\ IsKeyLetter(Ch(s, p + n))
               /\ LitAt(s, p + n + 1 + DelimRun(s, p + n + 1), "key")
            THEN p ELSE 0

\* the match at start position p: the greedy \d{1,2} takes two digits when
\* the rest of the pattern then matches, else one
KeyMatchAt(i, s, p) ==
    OrElse(Group(s, KeyGroupAt(i, s, p, 2), 3), Group(s, KeyGroupAt(i, s, p, 1), 2))

\* re.search(camelot_patterns[i], s, re.IGNORECASE) from start position p
\* on: group(1) of the leftmost match
RECURSIVE key_search_from(_, _, _)
key_search_from(i, s, p) ==
    IF p > Len(s) THEN None
    ELSE OrElse(KeyMatchAt(i, s, p), key_search_from(i, s, p + 1))

key_search(i, s) == key_search_from(i, s, 1)

NumKeyPatterns == 3

\* if key in CAMELOT_WHEEL: return key
in_wheel(k) == IF k \in DOMAIN CAMELOT_WHEEL THEN Some(k) ELSE None

\* the body of the first for loop
key_of_match(match) == IF match = None THEN None ELSE in_wheel(upper(match[1]))

\* the first for loop, from pattern i on
RECURSIVE camelot_patterns_from(_, _)
camelot_patterns_from(i, s) ==
    IF i > NumKeyPatterns THEN None
    ELSE OrElse(key_of_match(key_search(i, s)), camelot_patterns_from(i + 1, s))

musical_keys == <<
    <<"cmaj", "8B">>, <<"c major", "8B">>, <<"c#maj", "3B">>, <<"c# major", "3B">>,
    <<"dmaj", "10B">>, <<"d major", "10B">>, <<"d#maj", "5B">>, <<"d# major", "5B">>,
    <<"emaj", "12B">>, <<"e major", "12B">>, <<"fmaj", "7B">>, <<"f major", "7B">>,
    <<"f#maj", "2B">>, <<"f# major", "2B">>, <<"gmaj", "9B">>, <<"g major", "9B">>,
    <<"g#maj", "4B">>, <<"g# major", "4B">>, <<"amaj", "11B">>, <<"a major", "11B">>,
    <<"a#maj", "6B">>, <<"a# major", "6B">>, <<"bmaj", "1B">>, <<"b major", "1B">>,
    <<"cmin", "5A">>, <<"c minor", "5A">>, <<"c#min", "12A">>, <<"c# minor", "12A">>,
    <<"dmin", "7A">>, <<"d minor", "7A">>, <<"d#min", "2A">>, <<"d# minor", "2A">>,
    <<"emin", "9A">>, <<"e minor", "9A">>, <<"fmin", "4A">>, <<"f minor", "4A">>,
    <<"f#min", "11A">>, <<"f# minor", "11A">>, <<"gmin", "6A">>, <<"g minor", "6A">>,
    <<"g#min", "1A">>, <<"g# minor", "1A">>, <<"amin", "8A">>, <<"a minor", "8A">>,
    <<"a#min", "3A">>, <<"a# minor", "3A">>, <<"bmin", "10A">>, <<"b minor", "10A">> >>

\* the second for loop, from entry i of the table on (a dict keeps the order
\* its entries were written in)
RECURSIVE musical_keys_from(_, _)
musical_keys_from(i, s) ==
    IF i > Len(musical_keys) THEN None
    ELSE IF In(musical_keys[i][1], lower(s)) THEN Some(musical_keys[i][2])
    ELSE musical_keys_from(i + 1, s)

extract_key_from_filename(s) == OrElse(camelot_patterns_from(1, s), musical_keys_from(1, s))

-----------------------------------------------------------------------------
(* The keywords of classify_samples *)

\* the if/elif chain, in its order
category_keywords == <<
    <<"drums", {"kick", "drum", "bd", "sd", "snare", "hat"}>>,
    <<"bass", {"bass", "sub", "808", "low", "bassline"}>>,
    <<"melody", {"melody", "lead", "synth", "pluck", "arp"}>>,
    <<"harmony", {"chord", "pad", "string", "harmony", "stabs"}>>,
    <<"fx", {"fx", "effect", "impact", "sweep", "rise"}>>,
    <<"vocals", {"vocal", "voice", "chant", "sing", "vox"}>>,
    <<"loops", {"loop", "groove", "full", "mix"}>> >>

\* a variant in which a later test of the chain overrides an earlier one
RECURSIVE category_from_last(_, _)
category_from_last(i, name) ==
    IF i > Len(category_keywords) THEN "other"
    ELSE IF category_from_last(i + 1, name) # "other" THEN category_from_last(i + 1, name)
    ELSE IF \E word \in category_keywords[i][2] : In(word, name)
         THEN category_keywords[i][1]
    ELSE "other"

RECURSIVE category_from(_, _)
category_from(i, name) ==
    IF i > Len(category_keywords) THEN "other"
    ELSE IF \E word \in category_keywords[i][2] : In(word, name)
         THEN category_keywords[i][1]
    ELSE category_from(i + 1, name)

-----------------------------------------------------------------------------
(* Paths and directories *)

\* A path is the name of its parent directory and its base name:
\* os.path.basename(os.path.dirname(p)) and os.path.basename(p).
Path(d, n) == [dir |-> d, name |-> n]

EndsWith(s, suffix) ==
    /\ Len(suffix) <= Len(s)
    /\ SubSeq(s, Len(s) - Len(suffix) + 1, Len(s)) = suffix

AudioExtensions == {".wav", ".mp3", ".flac", ".aiff"}

\* the files os.walk finds under each directory, in the order it yields them
Directories ==
    "empty" :> << Path("empty", "readme.txt") >> @@
    "vocals" :> << Path("vocals", "vox_key8A.mp3"), Path("vocals", "chant_cmin_95bpm.flac") >> @@
    "pack" :> << Path("pack", "kick_128bpm 3B.wav"),
                 Path("pack", "notes.txt"),
                 Path("127bpm", "lead 9B.WAV"),
                 Path("vocals", "vox_key8A.mp3"),
                 Path("vocals", "chant_cmin_95bpm.flac") >>

\* the samples classify_samples is given when it is called on its own
ClassifyNames ==
    { "kick_128bpm_8A.wav", "Sub_Drum_Loop.wav", "bassline.wav", "808 lead.wav",
      "pad_synth.wav", "STABS.wav", "vocal_fx.wav", "voxmix.wav", "groove.wav",
      "noise.wav", "chat.wav", "riser.wav" }
ClassifyPaths == {Path(d, n) : d \in {"pack"}, n \in ClassifyNames}

AllPaths ==
    UNION {{Directories[d][i] : i \in 1..Len(Directories[d])} : d \in DOMAIN Directories}
KnownPaths == AllPaths \cup ClassifyPaths

\* f.lower().endswith(('.wav', '.mp3', '.flac', '.aiff'))
is_audio_file(f) == \E e \in AudioExtensions : EndsWith(lower(f), e)

\* the key get_sample_key works out for a path
key_uncached(path) ==
    OrElse(extract_key_from_filename(lower(path.name)),
           extract_key_from_filename(lower(path.dir)))

\* What the parsing of each known path yields.  The variable parsed holds
\* this table and the methods below look their path up in it.
Parsed ==
    [path \in KnownPaths |->
        [is_audio |-> is_audio_file(path.name),
         bpm_from_name |-> extract_bpm_from_filename(lower(path.name)),
         parent_bpm |-> extract_bpm_from_filename(lower(path.dir)),
         key |-> key_uncached(path),
         category |-> category_from(1, lower(path.name))]]

RECURSIVE audio_files_from(_, _)
audio_files_from(files, i) ==
    IF i > Len(files) THEN <<>>
    ELSE (IF parsed[files[i]].is_audio THEN <<files[i]>> ELSE <<>>)
            \o audio_files_from(files, i + 1)

\* custom_dir is None or the name of a directory
get_all_samples(self_samples_dir, custom_dir) ==
    LET search_dir == IF custom_dir # None THEN custom_dir[1] ELSE self_samples_dir
    IN  audio_files_from(Directories[search_dir], 1)

-----------------------------------------------------------------------------
(* get_bpm and get_sample_key *)

common_bpms == << 80, 85, 90, 95, 100, 105, 110, 115, 120,
                  122, 124, 126, 128, 130, 132, 135, 138,
                  140, 145, 150, 155, 160, 165, 170, 175, 180 >>

Abs(x) == IF x < 0 THEN 0 - x ELSE x

\* Tempos are whole numbers of beats per minute; the raw estimate of the
\* content analysis is kept doubled (bpm2 = 2 * bpm) so that halving is exact.
normalize2(raw) == IF raw < 80 THEN 4 * raw ELSE IF raw > 180 THEN raw ELSE 2 * raw

\* a variant that returns the estimate without moving it to common_bpms
closest_bpm_unsnapped(bpm2) == bpm2 \div 2

\* min(common_bpms, key=lambda x: abs(x - bpm)): the first of the nearest
closest_bpm(bpm2) ==
    LET i == CHOOSE i \in 1..Len(common_bpms) :
                /\ \A j \in 1..Len(common_bpms) :
                        Abs(2 * common_bpms[i] - bpm2) <= Abs(2 * common_bpms[j] - bpm2)
                /\ \A j \in 1..(i - 1) :
                        Abs(2 * common_bpms[j] - bpm2) > Abs(2 * common_bpms[i] - bpm2)
    IN  common_bpms[i]

\* What librosa does on one call: load raises or not, beat_track raises
\* (None) or returns a tempo, and so does the secondary estimator.
RawTempos == {39, 127, 181}
AnalysisOutcomes ==
    [load : {"ok", "raise"}, beat_track : {None} \cup {Some(r) : r \in RawTempos},
     tempo : {None} \cup {Some(r) : r \in RawTempos}]

\* a variant without the inner try: a failure of beat_track goes to the
\* fallback at once
bpm_uncached_one_estimator(path, target, a) ==
    LET from_name == parsed[path].bpm_from_name
        parent_bpm == parsed[path].parent_bpm
    IN  IF from_name # None /\ from_name[1] # 0
            THEN [bpm |-> from_name[1], via |-> "filename"]
        ELSE IF parent_bpm # None /\ parent_bpm[1] # 0
            THEN [bpm |-> parent_bpm[1], via |-> "parent"]
        ELSE IF a.load = "raise" \/ a.beat_track = None
            THEN [bpm |-> target, via |-> "fallback"]
        ELSE [bpm |-> closest_bpm(normalize2(a.beat_track[1])), via |-> "analysis"]

\* the body of the try block of get_bpm: the tempo and the branch it left by
bpm_uncached(path, target, a) ==
    LET from_name == parsed[path].bpm_from_name
        parent_bpm == parsed[path].parent_bpm
    IN  IF from_name # None /\ from_name[1] # 0
            THEN [bpm |-> from_name[1], via |-> "filename"]
        ELSE IF parent_bpm # None /\ parent_bpm[1] # 0
            THEN [bpm |-> parent_bpm[1], via |-> "parent"]
        ELSE IF a.load = "raise"
            THEN [bpm |-> target, via |-> "fallback"]
        ELSE IF a.beat_track # None
            THEN [bpm |-> closest_bpm(normalize2(a.beat_track[1])), via |-> "analysis"]
        ELSE IF a.tempo # None
            THEN [bpm |-> closest_bpm(normalize2(a.tempo[1])), via |-> "analysis"]
        ELSE [bpm |-> target, via |-> "fallback"]

\* a variant that neither reads the cache nor writes it
get_bpm_uncached(cache, path, target, a) ==
    [ret |-> bpm_uncached(path, target, a), cache |-> cache]

\* get_bpm: the return value with its branch, and the cache after the call
get_bpm(cache, path, target, a) ==
    IF path \in DOMAIN cache
    THEN [ret |-> [bpm |-> cache[path], via |-> "cache"], cache |-> cache]
    ELSE LET r == bpm_uncached(path, target, a)
         IN  [ret |-> r, cache |-> (path :> r.bpm) @@ cache]

\* the record of first returns after get_bpm has returned r for path
Seen(seen, path, r) == IF path \in DOMAIN seen THEN seen ELSE (path :> r) @@ seen

\* get_sample_key: the return value and the cache after the call
get_sample_key(cache, path) ==
    IF path \in DOMAIN cache
    THEN [ret |-> cache[path], cache |-> cache]
    ELSE [ret |-> parsed[path].key, cache |-> (path :> parsed[path].key) @@ cache]

-----------------------------------------------------------------------------
(* classify_samples *)

category_of(path) == parsed[path].category

\* categories[c].append(entry) on a defaultdict(list)
AppendTo(cats, c, entry) ==
    IF c \in DOMAIN cats
    THEN [cats EXCEPT ![c] = Append(@, entry)]
    ELSE (c :> <<entry>>) @@ cats

\* The for loop of classify_samples from sample i on.  st holds the
\* categories built so far, the two caches and the record of get_bpm's
\* returns; analysis[i] is what librosa does if get_bpm reaches it for
\* list[i].
RECURSIVE classify_from(_, _, _, _, _)
classify_from(i, list, target, analysis, st) ==
    IF i > Len(list) THEN st
    ELSE LET sample == list[i]
             b == get_bpm(st.bpm_cache, sample, target, analysis[i])
             k == get_sample_key(st.key_cache, sample)
         IN  classify_from(i + 1, list, target, analysis,
                [categories |-> AppendTo(st.categories, category_of(sample),
                                         <<sample, b.ret.bpm, k.ret>>),
                 bpm_cache |-> b.cache,
                 key_cache |-> k.cache,
                 bpm_seen |-> Seen(st.bpm_seen, sample, b.ret)])

classify_samples(list, target, analysis, bcache, kcache, seen) ==
    classify_from(1, list, target, analysis,
        [categories |-> <<>>, bpm_cache |-> bcache, key_cache |-> kcache, bpm_seen |-> seen])

-----------------------------------------------------------------------------
(* create_multilayer_composition: the random draws and the tables *)

\* probabilities, volumes and random numbers are in tenths
STANDARD_PROBABILITIES ==
    "drums" :> 9 @@ "bass" :> 8 @@ "melody" :> 7 @@ "harmony" :> 6 @@
    "vocals" :> 4 @@ "fx" :> 3 @@ "loops" :> 5 @@ "other" :> 2

EXPERIMENTAL_PROBABILITIES ==
    "drums" :> 6 @@ "bass" :> 5 @@ "melody" :> 8 @@ "harmony" :> 7 @@
    "vocals" :> 6 @@ "fx" :> 8 @@ "loops" :> 4 @@ "other" :> 9

priority_order == <<"drums", "bass", "melody", "harmony", "vocals", "fx", "loops", "other">>

volume_ranges ==
    "drums" :> <<4, 9>> @@ "bass" :> <<3, 8>> @@ "melody" :> <<2, 7>> @@
    "harmony" :> <<2, 6>> @@ "fx" :> <<1, 8>> @@ "vocals" :> <<3, 8>> @@
    "loops" :> <<2, 7>> @@ "other" :> <<1, 9>>

\* random.random(), in tenths: 0.0 <= r < 1.0
RandomDraws == 0..9

\* random.uniform(lo, hi): the two ends of the range stand for all of it
Uniform(range) == {range[1], range[2]}

\* the elements of seq that are in S, in the order of seq
RECURSIVE Filter(_, _)
Filter(seq, S) ==
    IF seq = <<>> THEN <<>>
    ELSE (IF Head(seq) \in S THEN <<Head(seq)>> ELSE <<>>) \o Filter(Tail(seq), S)

Range(seq) == {seq[i] : i \in 1..Len(seq)}

\* random.sample(population, k) for 0 <= k <= len(population): the lists of
\* k elements at distinct positions
Sample(population, k) ==
    {[i \in 1..k |-> population[f[i]]] :
        f \in {g \in [1..k -> 1..Len(population)] :
                    \A a, b \in 1..k : a # b => g[a] # g[b]}}

NonEmpty(cats) == {c \in DOMAIN cats : cats[c] # <<>>}

\* the categories the draws admit, in priority order; every non-empty
\* category when they admit none
available_categories(cats, probabilities, admitted) ==
    IF Filter(priority_order, admitted) # <<>>
    THEN Filter(priority_order, admitted)
    ELSE Filter(priority_order, NonEmpty(cats))

\* the sets of categories some outcome of the draws admits
Admissions(cats, probabilities) ==
    {A \in SUBSET NonEmpty(cats) :
        \A c \in NonEmpty(cats) :
            \E r \in RandomDraws : (r < probabilities[c]) <=> (c \in A)}

\* a variant that leaves the keys out: every sample of the category
samples_to_use_unfiltered(cats, category, compatible_keys) == cats[category]

\* the samples of a category the choice is made among
samples_to_use(cats, category, compatible_keys) ==
    LET all_samples == cats[category]
        ok(info) == \/ category \in {"drums", "fx", "other"}
                    \/ info[3] = None
                    \/ info[3] \in Range(compatible_keys)
        compatible_samples == Filter(all_samples, {info \in Range(all_samples) : ok(info)})
    IN  IF compatible_samples # <<>> THEN compatible_samples ELSE all_samples

-----------------------------------------------------------------------------
(* Audio.  An AudioSegment is its length in milliseconds, at one frame per *)
(* millisecond.                                                            *)

\* AudioSegment.from_file on one call: it raises (None) or returns a segment
DecodedLengths == {0, 3000, 40000}
DecodeOutcomes == {None} \cup {Some(n) : n \in DecodedLengths}

\* ideal_length = 16 * 60000 / target_bpm, a float: kept as the fraction
IdealNumerator == 960000
ShorterThanIdeal(len, target) == len * target < IdealNumerator

\* segment[:end] for an end of num/den milliseconds
Slice(len, num, den) == IF len * den <= num THEN len ELSE num \div den

\* change_tempo: the same frames played at int(frame_rate * target / current)
change_tempo(len, current, target) ==
    IF current = target \/ current <= 0 THEN len
    ELSE LET new_sample_rate == (1000 * target) \div current
         IN  IF new_sample_rate = 0 THEN len ELSE (len * 1000) \div new_sample_rate

\* a variant that appends the segment (base + seg) where the code overlays it
Overlay_concat(base, seg) == base + seg

\* base.overlay(seg): the result is as long as base
Overlay(base, seg) == base

DefaultDuration == 30000

\* datetime.now().strftime('%H%M%S') at the export
Clock == {"235959", "000000"}
mix_name(now) == "mix_" \o now \o ".wav"

-----------------------------------------------------------------------------
(* The instance and its public methods *)

NoCall ==
    /\ pc = "idle"
    /\ caller = ""
    /\ num_layers = 0
    /\ categories = <<>>
    /\ selected_categories = <<>>
    /\ idx = 0
    /\ dropped = {}
    /\ sample_info = None
    /\ audio = 0
    /\ looped = 0
    /\ layers = <<>>
    /\ composition_info = None
    /\ duration_ms = 0
    /\ mix_audio = 0
    /\ layer_idx = 0

\* the frames are dropped when the call returns or raises
Return(result) ==
    /\ outcome' = result
    /\ pc' = "idle"
    /\ caller' = ""
    /\ num_layers' = 0
    /\ categories' = <<>>
    /\ selected_categories' = <<>>
    /\ idx' = 0
    /\ dropped' = {}
    /\ sample_info' = None
    /\ audio' = 0
    /\ looped' = 0
    /\ layers' = <<>>
    /\ composition_info' = None
    /\ duration_ms' = 0
    /\ mix_audio' = 0
    /\ layer_idx' = 0

GetBpm(path, a) ==
    /\ pc = "idle"
    /\ LET b == get_bpm(bpm_cache, path, target_bpm, a)
       IN  /\ bpm_cache' = b.cache
           /\ bpm_seen' = Seen(bpm_seen, path, b.ret)
           /\ outcome' = [op |-> "get_bpm", path |-> path, bpm |-> b.ret.bpm,
                          via |-> b.ret.via, again |-> path \in DOMAIN bpm_seen,
                          \* what librosa did, when the call reached it
                          analysis |-> IF b.ret.via \in {"analysis", "fallback"}
                                       THEN Some(a) ELSE None]
    /\ UNCHANGED <<keyvars, ebvars, parsed, selfvars, key_cache, temp_dir, samples, callvars>>

GetSampleKey(path) ==
    /\ pc = "idle"
    /\ LET k == get_sample_key(key_cache, path)
       IN  /\ key_cache' = k.cache
           /\ outcome' = [op |-> "get_sample_key", path |-> path, key |-> k.ret]
    /\ UNCHANGED <<keyvars, ebvars, parsed, selfvars, bpm_cache, bpm_seen, temp_dir, samples, callvars>>

\* classify_samples called on its own
ClassifySamples(list, analysis) ==
    /\ pc = "idle"
    /\ LET st == classify_samples(list, target_bpm, analysis, bpm_cache, key_cache, bpm_seen)
       IN  /\ bpm_cache' = st.bpm_cache
           /\ key_cache' = st.key_cache
           /\ bpm_seen' = st.bpm_seen
           /\ outcome' = [op |-> "classify_samples", samples |-> list,
                          categories |-> st.categories]
    /\ UNCHANGED <<keyvars, ebvars, parsed, selfvars, temp_dir, samples, callvars>>

\* generate_complete_mix, lines 405-409, and create_multilayer_composition
\* down to the for loop over the selected categories
Compose(n, custom_samples_dir, analysis) ==
    /\ pc = "idle"
    /\ LET found == get_all_samples(samples_dir, custom_samples_dir)
           st == classify_samples(found, target_bpm, analysis, bpm_cache, key_cache, bpm_seen)
           probabilities == IF experimental_mode THEN EXPERIMENTAL_PROBABILITIES
                            ELSE STANDARD_PROBABILITIES
       IN  IF found = <<>>
           THEN /\ Return([op |-> "generate_complete_mix", status |-> "raised",
                           error |-> "NoSamplesFound"])
                /\ UNCHANGED <<cachevars>>
           ELSE \E admitted \in Admissions(st.categories, probabilities) :
                LET available == available_categories(st.categories, probabilities, admitted)
                    actual_layers == IF n < Len(available) THEN n ELSE Len(available)
                IN
                /\ bpm_cache' = st.bpm_cache
                /\ key_cache' = st.key_cache
                /\ bpm_seen' = st.bpm_seen
                /\ IF actual_layers < 0
                   THEN Return([op |-> "generate_complete_mix", status |-> "raised",
                                error |-> "ValueError"])
                   ELSE \E selected \in Sample(available, actual_layers) :
                        /\ pc' = "layer"
                        /\ caller' = "generate_complete_mix"
                        /\ num_layers' = n
                        /\ categories' = st.categories
                        /\ selected_categories' = selected
                        /\ idx' = 1
                        /\ layers' = <<>>
                        /\ composition_info' =
                                Some([layers |-> <<>>, bpm |-> target_bpm, key |-> current_key,
                                      mode |-> IF experimental_mode THEN "experimental"
                                               ELSE "standard"])
                        /\ outcome' = [op |-> "none"]
                        /\ UNCHANGED <<dropped, sample_info, audio, looped, duration_ms,
                                       mix_audio, layer_idx>>
    /\ UNCHANGED <<keyvars, ebvars, parsed, selfvars, temp_dir, samples>>

\* a variant whose except clause leaves the for loop (break) where the code
\* goes on with the next category (continue)
Layer_break(chosen, decoded) ==
    /\ pc = "layer"
    /\ idx <= Len(selected_categories)
    /\ chosen \in Range(samples_to_use(categories, selected_categories[idx],
                                       get_compatible_keys(Some(current_key))))
    /\ IF decoded = None
       THEN /\ idx' = Len(selected_categories) + 1
            /\ dropped' = dropped \cup {idx}
            /\ UNCHANGED <<pc, sample_info, audio, looped>>
       ELSE /\ sample_info' = Some(chosen)
            /\ audio' = decoded[1]
            /\ looped' = 0
            /\ pc' = IF ShorterThanIdeal(decoded[1], target_bpm) THEN "optimize" ELSE "append"
            /\ UNCHANGED <<idx, dropped>>
    /\ UNCHANGED <<keyvars, ebvars, parsed, selfvars, cachevars, temp_dir, samples, outcome, caller, num_layers,
                   categories, selected_categories, layers, composition_info, duration_ms,
                   mix_audio, layer_idx>>

\* one pass of the for loop over selected_categories, down to the call of
\* optimize_audio_length
Layer(chosen, decoded) ==
    /\ pc = "layer"
    /\ idx <= Len(selected_categories)
    /\ chosen \in Range(samples_to_use(categories, selected_categories[idx],
                                       get_compatible_keys(Some(current_key))))
    /\ IF decoded = None
       THEN \* from_file raises: except ... continue
            /\ idx' = idx + 1
            /\ dropped' = dropped \cup {idx}
            /\ UNCHANGED <<pc, sample_info, audio, looped>>
       ELSE /\ sample_info' = Some(chosen)
            /\ audio' = decoded[1]
            /\ looped' = 0
            /\ pc' = IF ShorterThanIdeal(decoded[1], target_bpm) THEN "optimize" ELSE "append"
            /\ UNCHANGED <<idx, dropped>>
    /\ UNCHANGED <<keyvars, ebvars, parsed, selfvars, cachevars, temp_dir, samples, outcome, caller, num_layers,
                   categories, selected_categories, layers, composition_info, duration_ms,
                   mix_audio, layer_idx>>

\* optimize_audio_length: one test of the while loop
Optimize ==
    /\ pc = "optimize"
    /\ IF ShorterThanIdeal(looped, target_bpm)
       THEN /\ looped' = looped + audio
            /\ UNCHANGED <<pc, audio>>
       ELSE /\ audio' = Slice(looped, IdealNumerator, target_bpm)
            /\ looped' = 0
            /\ pc' = "append"
    /\ UNCHANGED <<keyvars, ebvars, parsed, selfvars, cachevars, temp_dir, samples, outcome, caller, num_layers,
                   categories, selected_categories, idx, dropped, sample_info, layers,
                   composition_info, duration_ms, mix_audio, layer_idx>>

\* a variant that writes the entry of the plan summary before the calls of
\* the audio library, so that a pass that raises has already written it
AppendLayer_early(volume, transform) ==
    /\ pc = "append"
    /\ LET category == selected_categories[idx]
           sample_path == sample_info[1][1]
           original_bpm == sample_info[1][2]
           sample_key == sample_info[1][3]
           changed == IF original_bpm > 0 /\ Abs(original_bpm - target_bpm) > 1
                      THEN change_tempo(audio, original_bpm, target_bpm)
                      ELSE audio
       IN  /\ volume \in Uniform(volume_ranges[category])
           /\ composition_info' = Some([composition_info[1] EXCEPT !.layers = Append(@,
                [category |-> category, sample |-> sample_path.name,
                 original_bpm |-> original_bpm, key |-> sample_key, volume |-> volume])])
           /\ IF transform = "raise"
              THEN /\ dropped' = dropped \cup {idx}
                   /\ UNCHANGED layers
              ELSE /\ layers' = Append(layers,
                        [category |-> category, sample |-> sample_path, audio |-> changed,
                         original_bpm |-> original_bpm, key |-> sample_key, volume |-> volume])
                   /\ UNCHANGED dropped
    /\ idx' = idx + 1
    /\ pc' = "layer"
    /\ sample_info' = None
    /\ audio' = 0
    /\ UNCHANGED <<keyvars, ebvars, parsed, selfvars, cachevars, temp_dir, samples, outcome, caller, num_layers,
                   categories, selected_categories, looped, duration_ms, mix_audio, layer_idx>>

\* the rest of the pass: change_tempo, the volume, the two appends; or a
\* call of the audio library raises on the way and the pass ends in
\* except ... continue
AppendLayer(volume, transform) ==
    /\ pc = "append"
    /\ LET category == selected_categories[idx]
           sample_path == sample_info[1][1]
           original_bpm == sample_info[1][2]
           sample_key == sample_info[1][3]
           changed == IF original_bpm > 0 /\ Abs(original_bpm - target_bpm) > 1
                      THEN change_tempo(audio, original_bpm, target_bpm)
                      ELSE audio
       IN  /\ volume \in Uniform(volume_ranges[category])
           /\ IF transform = "raise"
              THEN /\ dropped' = dropped \cup {idx}
                   /\ UNCHANGED <<layers, composition_info>>
              ELSE /\ layers' = Append(layers,
                        [category |-> category, sample |-> sample_path, audio |-> changed,
                         original_bpm |-> original_bpm, key |-> sample_key, volume |-> volume])
                   /\ composition_info' = Some([composition_info[1] EXCEPT !.layers = Append(@,
                        [category |-> category, sample |-> sample_path.name,
                         original_bpm |-> original_bpm, key |-> sample_key, volume |-> volume])])
                   /\ UNCHANGED dropped
    /\ idx' = idx + 1
    /\ pc' = "layer"
    /\ sample_info' = None
    /\ audio' = 0
    /\ UNCHANGED <<keyvars, ebvars, parsed, selfvars, cachevars, temp_dir, samples, outcome, caller, num_layers,
                   categories, selected_categories, looped, duration_ms, mix_audio, layer_idx>>

\* a variant of generate_complete_mix without its test of the list
Composed_unchecked ==
    /\ pc = "layer"
    /\ idx > Len(selected_categories)
    /\ pc' = "mix"
    /\ duration_ms' = DefaultDuration
    /\ mix_audio' = DefaultDuration
    /\ layer_idx' = 1
    /\ looped' = 0
    /\ UNCHANGED <<outcome, caller, num_layers, categories, selected_categories, idx,
                   dropped, sample_info, audio, layers, composition_info>>
    /\ UNCHANGED <<keyvars, ebvars, parsed, selfvars, cachevars, temp_dir, samples>>

\* create_multilayer_composition returns; generate_complete_mix raises on an
\* empty list, else calls generate_mix_audio(layers)
Composed ==
    /\ pc = "layer"
    /\ idx > Len(selected_categories)
    /\ IF layers = <<>>
       THEN Return([op |-> "generate_complete_mix", status |-> "raised",
                    error |-> "EmptyComposition"])
       ELSE /\ pc' = "mix"
            /\ duration_ms' = DefaultDuration
            /\ mix_audio' = DefaultDuration
            /\ layer_idx' = 1
            /\ looped' = 0
            /\ UNCHANGED <<outcome, caller, num_layers, categories, selected_categories, idx,
                           dropped, sample_info, audio, layers, composition_info>>
    /\ UNCHANGED <<keyvars, ebvars, parsed, selfvars, cachevars, temp_dir, samples>>

\* a variant of generate_mix_audio without its test of the list
GenerateMixAudio_unchecked(ls, d) ==
    /\ pc = "idle"
    /\ pc' = "mix"
    /\ caller' = "generate_mix_audio"
    /\ layers' = ls
    /\ duration_ms' = d
    /\ mix_audio' = d
    /\ layer_idx' = 1
    /\ looped' = 0
    /\ outcome' = [op |-> "none"]
    /\ UNCHANGED <<num_layers, categories, selected_categories, idx, dropped,
                   sample_info, audio, composition_info>>
    /\ UNCHANGED <<keyvars, ebvars, parsed, selfvars, cachevars, temp_dir, samples>>

\* generate_mix_audio called on its own
GenerateMixAudio(ls, d) ==
    /\ pc = "idle"
    /\ IF ls = <<>>
       THEN Return([op |-> "generate_mix_audio", status |-> "raised", error |-> "ValueError"])
       ELSE /\ pc' = "mix"
            /\ caller' = "generate_mix_audio"
            /\ layers' = ls
            /\ duration_ms' = d
            /\ mix_audio' = d
            /\ layer_idx' = 1
            /\ looped' = 0
            /\ outcome' = [op |-> "none"]
            /\ UNCHANGED <<num_layers, categories, selected_categories, idx, dropped,
                           sample_info, audio, composition_info>>
    /\ UNCHANGED <<keyvars, ebvars, parsed, selfvars, cachevars, temp_dir, samples>>

\* generate_mix_audio: one test of the while loop of the layer at layer_idx
\* and, when it ends, the cut and the overlay
MixLayer ==
    /\ pc = "mix"
    /\ layer_idx <= Len(layers)
    /\ IF looped < duration_ms
       THEN /\ looped' = looped + layers[layer_idx].audio
            /\ UNCHANGED <<mix_audio, layer_idx>>
       ELSE /\ mix_audio' = Overlay(mix_audio, Slice(looped, duration_ms, 1))
            /\ layer_idx' = layer_idx + 1
            /\ looped' = 0
    /\ UNCHANGED <<keyvars, ebvars, parsed, selfvars, cachevars, temp_dir, samples, outcome, pc, caller,
                   num_layers, categories, selected_categories, idx, dropped, sample_info,
                   audio, layers, composition_info, duration_ms>>

\* generate_mix_audio exports the mix and returns; so does generate_complete_mix
Export(now) ==
    /\ pc = "mix"
    /\ layer_idx > Len(layers)
    /\ temp_dir' = (mix_name(now) :> mix_audio) @@ temp_dir
    /\ Return([op |-> caller, status |-> "returned", audio_path |-> mix_name(now),
               layers |-> Len(layers), duration_ms |-> duration_ms])
    /\ UNCHANGED <<keyvars, ebvars, parsed, selfvars, cachevars, samples>>

-----------------------------------------------------------------------------
(* Specifications *)

MaxKeyNum == 13
KeyLetters == {"A", "B", "a", "b", "C", ""}
KeyInputs ==
    {None, Some(""), Some("key"), Some("A8")}
        \cup {Some(str(n) \o l) : n \in 0..MaxKeyNum, l \in KeyLetters}

MaxTokens == 4
Tokens == {"1", "88", "bpm", "Bpm", "_", "(", ")"}
RECURSIVE TokenStrings(_)
TokenStrings(n) ==
    IF n = 0 THEN {""}
    ELSE LET S == TokenStrings(n - 1) IN S \cup {s \o t : s \in S, t \in Tokens}

KeysIdle == key = None /\ compatible = None /\ parsed = Parsed
BpmIdle == filename = "" /\ bpm_from_name = None

\* a new instance: MusicMixer(samples_dir, target_bpm, current_key, experimental_mode)
Instances ==
    { <<"pack", 128, "8A", FALSE>>,
      <<"vocals", 101, "4A", TRUE>>,
      <<"empty", 128, "8A", FALSE>> }

New(args) ==
    /\ samples_dir = args[1]
    /\ target_bpm = args[2]
    /\ current_key = args[3]
    /\ experimental_mode = args[4]
    /\ bpm_cache = <<>>
    /\ key_cache = <<>>
    /\ bpm_seen = <<>>
    /\ temp_dir = <<>>
    /\ outcome = [op |-> "none"]
    /\ samples = <<>>
    /\ NoCall

MixerIdle == New(<<"empty", 128, "8A", FALSE>>)

CallGetCompatibleKeys ==
    /\ compatible = None
    /\ compatible' = Some(get_compatible_keys(key))
    /\ UNCHANGED <<key, ebvars, parsed, mixervars>>

InitKeys == key \in KeyInputs /\ compatible = None /\ parsed = Parsed /\ BpmIdle /\ MixerIdle
NextKeys == CallGetCompatibleKeys
SpecKeys == InitKeys /\ [][NextKeys]_vars

CallExtractBpm ==
    /\ bpm_from_name = None
    /\ bpm_from_name' = Some(extract_bpm_from_filename(filename))
    /\ UNCHANGED <<filename, keyvars, parsed, mixervars>>

InitBpm == filename \in TokenStrings(MaxTokens) /\ bpm_from_name = None /\ KeysIdle /\ MixerIdle
NextBpm == CallExtractBpm
SpecBpm == InitBpm /\ [][NextBpm]_vars

\* what librosa does during a composition
MixAnalysis ==
    { [load |-> "raise", beat_track |-> None, tempo |-> None],
      [load |-> "ok", beat_track |-> Some(181), tempo |-> None] }

MaxLayers == 3
MaxDuration == 3
MaxMixLayers == 2

\* a layer as a caller of generate_mix_audio may build it
MixLayerInput(len) ==
    [category |-> "other", sample |-> Path("", ""), audio |-> len,
     original_bpm |-> 0, key |-> None, volume |-> 5]
MixLayerInputs ==
    UNION {[1..n -> {MixLayerInput(len) : len \in 0..(MaxDuration + 1)}] : n \in 0..MaxMixLayers}

CustomDirs == {None, Some("vocals")}

\* the audio files of the directories
SamplePaths == {path \in AllPaths : parsed[path].is_audio}

\* classify_samples on a new instance, on every short list of samples
MaxSamples == 2
ClassifyInputs == UNION {[1..n -> ClassifyPaths] : n \in 0..MaxSamples}

InitClassify ==
    /\ KeysIdle /\ BpmIdle
    /\ samples_dir = "pack"
    /\ target_bpm = 128
    /\ current_key = "8A"
    /\ experimental_mode = FALSE
    /\ bpm_cache = <<>>
    /\ key_cache = <<>>
    /\ bpm_seen = <<>>
    /\ temp_dir = <<>>
    /\ outcome = [op |-> "none"]
    /\ samples \in ClassifyInputs
    /\ NoCall
NextClassify == \E analysis \in [1..Len(samples) -> MixAnalysis] : ClassifySamples(samples, analysis)
SpecClassify == InitClassify /\ [][NextClassify]_vars

\* The analysis methods of one instance, called in any order.  A composition
\* reads and writes the two caches through classify_samples alone, on the
\* samples of a directory.
Init == /\ KeysIdle /\ BpmIdle
        /\ \E args \in Instances : New(args)

NextCache ==
    \/ \E path \in SamplePaths, a \in AnalysisOutcomes : GetBpm(path, a)
    \/ \E path \in SamplePaths : GetSampleKey(path)
    \/ \E d \in DOMAIN Directories :
         \E analysis \in [1..Len(get_all_samples(d, None)) -> MixAnalysis] :
            ClassifySamples(get_all_samples(d, None), analysis)
SpecCache == Init /\ [][NextCache]_vars

\* generate_mix_audio called on its own, on every short list of layers
InitRender == /\ KeysIdle /\ BpmIdle /\ MixerIdle
NextRender ==
    \/ \E ls \in MixLayerInputs, d \in 0..MaxDuration : GenerateMixAudio(ls, d)
    \/ MixLayer
    \/ \E now \in Clock : Export(now)
SpecRender == InitRender /\ [][NextRender]_vars

\* The composition requests of one instance, and generate_mix_audio called
\* on its own with no layer or with one.
DirectInputs == {<<>>, <<MixLayerInput(40000)>>}

Next ==
    \/ \E n \in (0 - 1)..MaxLayers, custom \in CustomDirs :
         \E analysis \in [1..Len(get_all_samples(samples_dir, custom)) -> MixAnalysis] :
            Compose(n, custom, analysis)
    \/ \E chosen \in UNION {Range(categories[c]) : c \in DOMAIN categories},
          decoded \in DecodeOutcomes : Layer(chosen, decoded)
    \/ Optimize
    \/ \E volume \in 1..9, transform \in {"ok", "raise"} : AppendLayer(volume, transform)
    \/ Composed
    \/ \E ls \in DirectInputs : GenerateMixAudio(ls, DefaultDuration)
    \/ MixLayer
    \/ \E now \in Clock : Export(now)

Spec == Init /\ [][Next]_vars

-----------------------------------------------------------------------------
(* Properties *)

\* the 12 numbers of the wheel as they are written
WheelNumbers == <<"1", "2", "3", "4", "5", "6", "7", "8", "9", "10", "11", "12">>
WheelLetters == {"A", "B"}
OtherLetter(L) == IF L = "A" THEN "B" ELSE "A"

\* the list the contract of get_compatible_keys names for the key <n><L>
Neighbours(n, L) ==
    << Some(WheelNumbers[n] \o L),
       Some(WheelNumbers[n] \o OtherLetter(L)),
       Some(WheelNumbers[(n % 12) + 1] \o L),
       Some(WheelNumbers[((n + 10) % 12) + 1] \o L) >>

\* C1: for each of the 24 keys <n><L>, n in 1..12 and L in {A, B},
\* get_compatible_keys returns the list [the key, n with the other letter,
\* n+1 (12 wraps to 1) with L, n-1 (1 wraps to 12) with L]; its four members
\* are pairwise distinct and the first is the key; "8A" gives
\* ["8A", "8B", "9A", "7A"].
C1_CompatibleKeys ==
    /\ \A n \in 1..12, L \in WheelLetters :
         (key = Some(WheelNumbers[n] \o L) /\ compatible # None) =>
            /\ compatible[1] = Neighbours(n, L)
            /\ Len(compatible[1]) = 4
            /\ compatible[1][1] = key
            /\ \A a, b \in 1..4 : a # b => compatible[1][a] # compatible[1][b]
    /\ (key = Some("8A") /\ compatible # None) =>
            compatible[1] = <<Some("8A"), Some("8B"), Some("9A"), Some("7A")>>

\* C1 on the key where the wheel wraps upwards
C1_Witness ==
    /\ key = Some("12A")
    /\ compatible = Some(<<Some("12A"), Some("12B"), Some("1A"), Some("11A")>>)

Kick == Path("pack", "kick_128bpm_8A.wav")

\* C2: for the sample kick_128bpm_8A.wav, in a directory whose name holds no
\* tempo and no key, the analysis yields the category drums, the tempo 128
\* and the key 8A.
C2_ScenarioA ==
    (outcome.op = "classify_samples" /\ outcome.samples = <<Kick>>) =>
        /\ DOMAIN outcome.categories = {"drums"}
        /\ outcome.categories["drums"] = << <<Kick, 128, Some("8A")>> >>

\* the start positions at which pattern i matches in s
MatchStarts(i, s) == {p \in 1..Len(s) : \E n \in {2, 3} : BpmGroupAt(i, s, p, n) > 0}

\* the number pattern i finds in s: the one of its leftmost match, with three
\* digits when the match can take three; None when the pattern does not match
FoundBy(i, s) ==
    IF MatchStarts(i, s) = {} THEN None
    ELSE LET p == CHOOSE q \in MatchStarts(i, s) : \A r \in MatchStarts(i, s) : q <= r
             n == IF BpmGroupAt(i, s, p, 3) > 0 THEN 3 ELSE 2
             g == BpmGroupAt(i, s, p, n)
         IN  Some(int(SubSeq(s, g, g + n - 1)))

\* the patterns that find a number from 80 to 180 in s
Accepting(s) == {i \in 1..6 : FoundBy(i, s) # None /\ FoundBy(i, s)[1] \in 80..180}

\* C3: when one of the six patterns finds a number in [80,180] in the
\* filename, extract_bpm_from_filename returns the number found by the first
\* such pattern, the patterns before it having found nothing or a number out
\* of the range; when none does it returns None; so the result is None or an
\* integer in [80,180].
C3_ExtractBpm ==
    bpm_from_name # None =>
        LET r == bpm_from_name[1]
        IN  /\ r # None => r[1] \in 80..180
            /\ IF Accepting(filename) = {}
               THEN r = None
               ELSE r = FoundBy(CHOOSE i \in Accepting(filename) :
                                    \A j \in Accepting(filename) : i <= j, filename)

\* C3 where the first pattern finds 11, out of the range, and the second 88
C3_Witness ==
    /\ filename = "11Bpm88"
    /\ FoundBy(1, filename) = Some(11)
    /\ bpm_from_name = Some(Some(88))

EightCategories == {"drums", "bass", "melody", "harmony", "fx", "vocals", "loops", "other"}
KeywordOrder == <<"drums", "bass", "melody", "harmony", "fx", "vocals", "loops">>

\* the keyword sets, in the order of category_keywords, that have a member
\* occurring in the lower-cased name
Matching(name) ==
    LET lowered == lower(name)
    IN  {i \in 1..Len(category_keywords) :
            \E word \in category_keywords[i][2] : In(word, lowered)}

FirstMatching(name) ==
    LET matching == Matching(name)
    IN  IF matching = {} THEN "other"
        ELSE KeywordOrder[CHOOSE i \in matching : \A j \in matching : i <= j]

\* the number of positions of seq whose element satisfies Test
Count(seq, Test(_)) == Cardinality({i \in 1..Len(seq) : Test(seq[i])})

\* the entries of category c
EntriesOf(cats, c) == IF c \in DOMAIN cats THEN cats[c] ELSE <<>>

RECURSIVE TotalEntries(_, _)
TotalEntries(cats, i) ==
    IF i > Len(priority_order) THEN 0
    ELSE Len(EntriesOf(cats, priority_order[i])) + TotalEntries(cats, i + 1)

\* C6: classify_samples puts every input sample in exactly one of the 8
\* categories: the first, in the order drums, bass, melody, harmony, fx,
\* vocals, loops, whose keyword set has a member occurring in the lower-cased
\* filename, and other when none has; there are as many entries as samples.
C6_Classify ==
    outcome.op = "classify_samples" =>
        LET cats == outcome.categories
        IN  /\ [i \in 1..Len(KeywordOrder) |-> category_keywords[i][1]] = KeywordOrder
            /\ DOMAIN cats \subseteq EightCategories
            /\ \A sample \in Range(outcome.samples) :
                 LET Same(x) == x = sample
                     IsEntry(e) == e[1] = sample
                     first == FirstMatching(sample.name)
                 IN  \A c \in EightCategories :
                        Count(EntriesOf(cats, c), IsEntry) =
                            IF c = first THEN Count(outcome.samples, Same) ELSE 0
            /\ TotalEntries(cats, 1) = Len(outcome.samples)

\* C6 on a name three keyword sets match (drums, bass and loops) and on one
\* none matches
C6_Witness ==
    /\ outcome.op = "classify_samples"
    /\ outcome.samples = <<Path("pack", "Sub_Drum_Loop.wav"), Path("pack", "noise.wav")>>
    /\ Matching("Sub_Drum_Loop.wav") = {1, 2, 7}
    /\ DOMAIN outcome.categories = {"drums", "other"}
    /\ outcome.categories["drums"][1][1] = Path("pack", "Sub_Drum_Loop.wav")
    /\ outcome.categories["other"][1][1] = Path("pack", "noise.wav")

Lattice == {80, 85, 90, 95, 100, 105, 110, 115, 120, 122, 124, 126, 128, 130, 132, 135, 138,
            140, 145, 150, 155, 160, 165, 170, 175, 180}

\* C4 as it is stated: whatever way the chain resolves (filename, parent
\* directory, content analysis, analysis failure), the tempo get_bpm returns
\* is on the lattice of common tempos.
C4_AlwaysOnLattice ==
    outcome.op = "get_bpm" => outcome.bpm \in Lattice

\* C4 amended: the tempo get_bpm returns for a path is on the lattice when
\* the content analysis resolved it; it is an integer in [80,180], on the
\* lattice or not, when the filename or the parent directory name resolved
\* it; it is the target tempo of the instance when the analysis failed.
C4_LatticeWhenAnalysed ==
    outcome.op = "get_bpm" =>
        LET first == bpm_seen[outcome.path]
        IN  /\ first.via \in {"filename", "parent", "analysis", "fallback"}
            /\ first.via = "analysis" => outcome.bpm \in Lattice
            /\ first.via \in {"filename", "parent"} => outcome.bpm \in 80..180
            /\ first.via = "fallback" => outcome.bpm = target_bpm

\* C4 amended, on an estimate of 127 that the analysis moves to 126
C4_Witness ==
    /\ outcome.op = "get_bpm"
    /\ outcome.via = "analysis"
    /\ outcome.bpm = 126

\* C5: once get_bpm has returned a tempo for a path, the cache holds it and
\* every later get_bpm of the path, called on its own or by classify_samples,
\* returns it again without running the chain, whichever branch it came from
\* and whatever calls were made in between.
C5_CachedTempo ==
    /\ \A path \in DOMAIN bpm_seen :
            path \in DOMAIN bpm_cache /\ bpm_cache[path] = bpm_seen[path].bpm
    /\ outcome.op = "get_bpm" =>
            /\ outcome.bpm = bpm_seen[outcome.path].bpm
            /\ outcome.again => outcome.via = "cache"
    /\ outcome.op = "classify_samples" =>
            \A c \in DOMAIN outcome.categories :
                \A i \in 1..Len(outcome.categories[c]) :
                    outcome.categories[c][i][2] = bpm_seen[outcome.categories[c][i][1]].bpm

\* C5 on a second call for a path whose first tempo came from the analysis
C5_Witness ==
    /\ outcome.op = "get_bpm"
    /\ outcome.again
    /\ outcome.via = "cache"
    /\ bpm_seen[outcome.path].via = "analysis"
    /\ outcome.bpm = bpm_seen[outcome.path].bpm
    /\ key_cache # <<>>

\* C7: a composition request for N layers that reaches the rendering, and so
\* returns a mix, renders L layers with 1 <= L <= N and L at most the number
\* of non-empty categories, whatever the admission draws, the sampling of
\* the categories and the decoding of the samples give; over samples that
\* are all vocals, N = 3 and no failing pass give exactly one layer.
C7_LayerCount ==
    /\ (pc = "mix" /\ caller = "generate_complete_mix") =>
            /\ 1 <= Len(layers)
            /\ Len(layers) <= num_layers
            /\ Len(layers) <= Cardinality(NonEmpty(categories))
            /\ (NonEmpty(categories) = {"vocals"} /\ num_layers = 3) => Len(layers) = 1
    /\ (outcome.op = "generate_complete_mix" /\ outcome.status = "returned") =>
            outcome.layers \in 1..8

\* C7 on the directory of vocals, with three layers asked for
C7_Witness ==
    /\ pc = "mix"
    /\ caller = "generate_complete_mix"
    /\ samples_dir = "vocals"
    /\ NonEmpty(categories) = {"vocals"}
    /\ Len(categories["vocals"]) = 2
    /\ num_layers = 3
    /\ Len(layers) = 1
    /\ layer_idx > Len(layers)

\* C8: for a non-empty list of layers and a duration D, the mix that
\* generate_mix_audio builds and exports is D long, whether the layers are
\* shorter than D, as long, or longer: the canvas is D long from the start
\* and stays so after each overlay.
C8_MixDuration ==
    /\ pc = "mix" => mix_audio = duration_ms
    /\ (outcome.op = "generate_mix_audio" /\ outcome.status = "returned") =>
            /\ outcome.audio_path \in DOMAIN temp_dir
            /\ temp_dir[outcome.audio_path] = outcome.duration_ms

\* C8 with D = 2, a layer of 3 ms and a layer of 1 ms, both overlaid
C8_Witness ==
    /\ pc = "mix"
    /\ caller = "generate_mix_audio"
    /\ Len(layers) = 2
    /\ layers[1].audio = 3
    /\ layers[2].audio = 1
    /\ duration_ms = 2
    /\ layer_idx > Len(layers)
    /\ mix_audio = 2

Raised(o) == o.op \in {"generate_complete_mix", "generate_mix_audio"} /\ o.status = "raised"

\* C9: a request that fails writes no file.  A composition goes on after
\* get_all_samples only if there are samples, and it raises NoSamplesFound
\* otherwise; it reaches the rendering only with at least one layer, and
\* raises EmptyComposition otherwise; generate_mix_audio raises at once on an
\* empty list; a step that raises leaves temp_dir as it is, and temp_dir
\* changes only in the step that returns a mix of at least one layer.
C9_NoArtifactOnFailure ==
    [][ /\ (pc = "idle" /\ pc' = "layer") => NonEmpty(categories') # {}
        /\ pc' = "mix" => layers' # <<>>
        /\ (pc = "layer" /\ pc' = "idle") =>
                /\ layers = <<>>
                /\ outcome' = [op |-> "generate_complete_mix", status |-> "raised",
                               error |-> "EmptyComposition"]
        /\ (pc = "idle" /\ pc' = "idle" /\ outcome'.op # "none") => Raised(outcome')
        /\ (outcome'.op # "none" /\ Raised(outcome')) => temp_dir' = temp_dir
        /\ temp_dir' # temp_dir =>
                /\ pc = "mix"
                /\ layers # <<>>
                /\ outcome'.status = "returned"
      ]_vars

\* C9 after a request whose passes all failed, on an instance that has
\* written no file
C9_Witness ==
    /\ outcome = [op |-> "generate_complete_mix", status |-> "raised",
                  error |-> "EmptyComposition"]
    /\ samples_dir = "pack"
    /\ bpm_cache # <<>>
    /\ temp_dir = <<>>

\* the categories of the passes 1..upto that did not raise, in their order
RECURSIVE KeptFrom(_, _, _, _)
KeptFrom(sel, i, upto, drop) ==
    IF i > upto THEN <<>>
    ELSE (IF i \in drop THEN <<>> ELSE <<sel[i]>>) \o KeptFrom(sel, i + 1, upto, drop)

CategoriesOf(ls) == [i \in 1..Len(ls) |-> ls[i].category]

\* C10: when the pass of a chosen category raises, the category is in
\* neither the layer list nor the plan summary and the request does not raise
\* for it; the layers and the summary hold, in selection order, exactly the
\* categories of the finished passes that did not raise; and a composition
\* that keeps a layer is rendered at the requested 30000 ms.
C10_DroppedLayer ==
    /\ caller = "generate_complete_mix" =>
            LET kept == KeptFrom(selected_categories, 1, idx - 1, dropped)
            IN  /\ dropped \subseteq 1..(idx - 1)
                /\ CategoriesOf(layers) = kept
                /\ CategoriesOf(composition_info[1].layers) = kept
                /\ pc = "mix" => duration_ms = 30000 /\ mix_audio = 30000
    /\ (outcome.op = "generate_complete_mix" /\ outcome.status = "raised") =>
            outcome.error \in {"NoSamplesFound", "EmptyComposition", "ValueError"}
    /\ (outcome.op = "generate_complete_mix" /\ outcome.status = "returned") =>
            temp_dir[outcome.audio_path] = 30000

\* C10 on three chosen categories of which the second raised
C10_Witness ==
    /\ pc = "mix"
    /\ caller = "generate_complete_mix"
    /\ Len(selected_categories) = 3
    /\ dropped = {2}
    /\ CategoriesOf(layers) = <<selected_categories[1], selected_categories[3]>>
    /\ layer_idx > Len(layers)
    /\ mix_audio = 30000

\* the common tempo nearest to each estimate of RawTempos, once doubled or
\* halved into the range: 39 -> 78 -> 80, 127 -> 126 (before 128),
\* 181 -> 90.5 -> 90
SnappedEstimate == 39 :> 80 @@ 127 :> 126 @@ 181 :> 90

\* C11: get_bpm always returns a tempo.  When neither the filename nor the
\* parent directory name yields one, the call reaches librosa, and then: if
\* the decode raises, or beat_track and the secondary estimator both raise,
\* it returns the target tempo of the instance; if only beat_track raises it
\* returns the (snapped) value of the secondary estimator, not the fallback.
C11_AnalysisFallback ==
    outcome.op = "get_bpm" =>
        /\ outcome.bpm \in Nat
        /\ outcome.analysis # None <=>
                /\ ~outcome.again
                /\ parsed[outcome.path].bpm_from_name = None
                /\ parsed[outcome.path].parent_bpm = None
        /\ outcome.analysis # None =>
                LET a == outcome.analysis[1]
                IN  /\ (a.load = "raise" \/ (a.beat_track = None /\ a.tempo = None)) =>
                            outcome.via = "fallback" /\ outcome.bpm = target_bpm
                    /\ (a.load = "ok" /\ a.beat_track = None /\ a.tempo # None) =>
                            /\ outcome.via = "analysis"
                            /\ outcome.bpm = SnappedEstimate[a.tempo[1]]
                    /\ (a.load = "ok" /\ a.beat_track # None) =>
                            /\ outcome.via = "analysis"
                            /\ outcome.bpm = SnappedEstimate[a.beat_track[1]]

\* C11 where beat_track raises and the secondary estimator returns 127
C11_Witness ==
    /\ outcome.op = "get_bpm"
    /\ outcome.analysis = Some([load |-> "ok", beat_track |-> None, tempo |-> Some(127)])
    /\ target_bpm = 101
    /\ outcome.bpm = 126

RecognizedKeys == {Some(WheelNumbers[n] \o L) : n \in 1..12, L \in WheelLetters}

\* C12: for an input that is not one of the 24 keys (a number out of 1..12
\* as in 0A or 13B, a lower-case letter, the empty string, None),
\* get_compatible_keys returns the list holding the input alone.
C12_UnrecognizedKey ==
    /\ {Some("0A"), Some("13B"), Some("8a"), Some(""), None} \cap RecognizedKeys = {}
    /\ (compatible # None /\ key \notin RecognizedKeys) => compatible[1] = <<key>>

\* C12 on 13B, whose form is that of a key
C12_Witness ==
    /\ key = Some("13B")
    /\ compatible = Some(<<Some("13B")>>)

\* the keys compatible with the target key k, as the contract of
\* get_compatible_keys names them
CompatibleTo(k) ==
    IF Some(k) \in RecognizedKeys
    THEN UNION {Range(Neighbours(n, L)) :
                    n \in {m \in 1..12 : \E M \in WheelLetters : k = WheelNumbers[m] \o M},
                    L \in {M \in WheelLetters : \E m \in 1..12 : k = WheelNumbers[m] \o M}}
    ELSE {Some(k)}

\* the entries of category c that may be chosen for its layer
Eligible(c) ==
    LET all == Range(categories[c])
        fitting == {e \in all : e[3] = None \/ e[3] \in CompatibleTo(current_key)}
    IN  IF c \in {"drums", "fx", "other"} THEN all
        ELSE IF fitting # {} THEN fitting
        ELSE all

\* C13: the sample chosen for the layer of a category other than drums, fx
\* and other has no key or a key compatible with the target key whenever the
\* category holds such a sample; any sample of the category may be chosen
\* only when it holds none; for drums, fx and other every sample may be
\* chosen.  This holds of the sample in hand during a pass and of every
\* layer appended.
C13_KeyCompatibleChoice ==
    /\ pc \in {"optimize", "append"} =>
            sample_info[1] \in Eligible(selected_categories[idx])
    /\ caller = "generate_complete_mix" =>
            \A i \in 1..Len(layers) :
                \E e \in Eligible(layers[i].category) :
                    e[1] = layers[i].sample /\ e[3] = layers[i].key

\* C13 on the vocals of pack, of which one has the target key 8A and the
\* other the key 5A
C13_Witness ==
    /\ pc = "append"
    /\ current_key = "8A"
    /\ selected_categories[idx] = "vocals"
    /\ {e[3] : e \in Range(categories["vocals"])} = {Some("8A"), Some("5A")}
    /\ sample_info[1][3] = Some("8A")

\* C14: the buffer optimize_audio_length returns is U = 16 * 60000 /
\* target_bpm milliseconds long, whether the decoded buffer was shorter than
\* U, as long, or longer.  A length is a whole number of milliseconds, so the
\* buffer is U long when its length is less than a millisecond away from U.
C14_ExactUnit ==
    pc = "append" => Abs(audio * target_bpm - 16 * 60000) < target_bpm

\* the next step of the request in progress
Running ==
    \/ \E chosen \in UNION {Range(categories[c]) : c \in DOMAIN categories},
          decoded \in DecodeOutcomes : Layer(chosen, decoded)
    \/ Optimize
    \/ \E volume \in 1..9, transform \in {"ok", "raise"} : AppendLayer(volume, transform)
    \/ Composed
    \/ MixLayer
    \/ \E now \in Clock : Export(now)

\* C15: every request runs to completion: the loop of optimize_audio_length
\* and the loop of generate_mix_audio end after finitely many iterations for
\* every decoded buffer, one of 0 ms included.  The call is synchronous and
\* its steps are determined by the state, so it completes only if, while it
\* is in progress, its next step changes the state: an iteration that leaves
\* the state as it found it is repeated for ever.
C15_RunsToCompletion ==
    pc # "idle" => ENABLED <<Running>>_vars

\* the layer list and the layer list of the plan summary are one list told
\* twice, and no category is in it twice
ParallelLists ==
    LET info == composition_info[1].layers
    IN  /\ Len(layers) = Len(info)
        /\ \A i \in 1..Len(layers) :
              /\ info[i].category = layers[i].category
              /\ info[i].sample = layers[i].sample.name
              /\ info[i].original_bpm = layers[i].original_bpm
              /\ info[i].key = layers[i].key
              /\ info[i].volume = layers[i].volume
        /\ \A i, j \in 1..Len(layers) : i # j => layers[i].category # layers[j].category

\* C16: after every step of create_multilayer_composition, and in what it
\* returns, the layer list and the layer list of the plan summary have the
\* same length and agree, index by index, on the category, the sample (the
\* path on one side, its base name on the other), the original tempo, the key
\* and the volume; the categories of the layers are pairwise distinct; and a
\* pass that is skipped because it raised leaves both lists as they were.
C16_ParallelLists ==
    [][ /\ caller' = "generate_complete_mix" => ParallelLists'
        /\ (dropped \subseteq dropped' /\ dropped' # dropped) =>
                UNCHANGED <<layers, composition_info>>
      ]_vars

\* C16 on two layers kept, from two directories, after a pass that was
\* skipped with one layer in the lists already
C16_Witness ==
    /\ caller = "generate_complete_mix"
    /\ pc = "layer"
    /\ idx > Len(selected_categories)
    /\ Len(layers) = 2
    /\ Len(composition_info[1].layers) = 2
    /\ dropped = {2}
    /\ layers[1].category # layers[2].category
    /\ composition_info[1].layers[2].sample = layers[2].sample.name
    /\ layers[1].volume # layers[2].volume

=============================================================================
